---- MODULE Spec2Model ----
(***************************************************************************)
(* Hierarchical visual localisation (evaluate.py): global neighbour        *)
(* search with self-match removal, co-visibility clustering of the ranked  *)
(* neighbours, local matching of the query against the clusters, pose      *)
(* estimation with its bookkeeping, and the statistics of a batch; the     *)
(* training datasets of models/cirtorch_utils/genericdataset.py: the       *)
(* train/validation views of PointCloudSplit and the negative sampling of  *)
(* PointCloudImagesFromList.                                               *)
(*                                                                         *)
(* Python sequences are 0-based, TLA+ sequences 1-based: query_id and the  *)
(* database indices held in `indices` are the Python values plus one; so   *)
(* are keypoint and descriptor positions.  A local name that is not bound  *)
(* yet holds 0.  Translation errors are in centimetres, rotation errors in *)
(* degrees, rates in percent rounded down.  The positions held in idcs,    *)
(* index and trp_j are the 0-based Python values.                          *)
(***************************************************************************)
EXTENDS Integers, Sequences, FiniteSets, TLC

\* ---- bounds of the model ------------------------------------------------
NImg == 3            \* number of database images of the map
NImgCov == 4         \* number of database images of the map in SpecCov
NPts == 2            \* number of 3D points of the map
NQueries == 2        \* args.overfit: number of queries of the batch
MaxNeighbors == 3    \* largest args.n_neighbors
NQueryDesc == 2      \* local descriptors of the query image
NDataDesc == 2       \* local descriptors of a database image
MaxMatched == 5      \* most correspondences match_local returns for a query
NResults == 2        \* most results handed to percentage_stats
MaxList == 3         \* longest point_list given to PointCloudSplit
MaxSplit == 3        \* largest split given to PointCloudSplit

VARIABLES
    images,             \* keys of the images dict: the ids of the database images
    args,               \* parsed command line (verify, cluster, augmentation, n_neighbors, overfit)
    points3d,           \* points3d[p] = set(points3d[p].image_ids)
    img_cluster,        \* the shared co-visibility map built by setup
    query_images,       \* the queries of the batch
    query_image_ids,    \* verification mode: image id of every query
    image_ids,          \* database position -> image id (negated: augmented)
    candidates,         \* Matcher.match output, one ranked row per query
    indices,            \* neighbour list kept for every query
    query_id,           \* loop variable of local_matching
    top_neighbor_match, \* verification mode: per query, match rate of each neighbour
    cluster_orig_ids,   \* ids whose img_cluster entry is aliased by cluster_query
    cluster_query,      \* clusters handed to match_local for query_id
    pc,                 \* position in __main__
    err,                \* exception that ended the run ("none" otherwise)
    matches_forward,    \* double_matching: local_matcher.match(query, neighbor)
    matches_reverse,    \* double_matching: local_matcher.match(neighbor, query)
    matches,            \* double_matching: returned array
    point3D_ids,        \* images[i].point3D_ids: 3D point of every keypoint, -1 if none
    pt_ids_all,         \* match_local: point ids of the refiltering pool, one array per image
    data_descs,         \* match_local: descriptors <<image, keypoint>> of the pool, one array per image
    matched_kpts_cv,    \* match_local: query keypoints of the correspondences
    matched_pts,        \* match_local: 3D points of the correspondences
    correct,            \* match_local: matches onto the query keypoint's own 3D point
    incorrect,          \* match_local: matches onto another 3D point
    camera_matrices,    \* queries whose path has an intrinsics record
    cm,                 \* local_matching: query whose intrinsics record cm refers to
    camera_matrix,      \* local_matching: query whose matrix is used, or backfall_cm
    distortion_coeff,   \* local_matching: query whose rad_dist is used
    pnp,                \* what the solvers did for every query processed so far
    success,            \* local_matching: success of the query processed last
    position,           \* local_matching: query whose estimated position is held
    quat,               \* local_matching: query whose estimated orientation is held
    inlier_nums,        \* inlier count recorded for every query
    inlier_rates,       \* inlier rate recorded for every query
    errors,             \* verification mode, per query: the query loop keeps the query whose
                        \* estimated position the error is the distance of; stats and
                        \* percentage_stats read the translation errors
    errors_rot,         \* the same for the orientation and the rotation errors
    out_file,           \* names of the queries whose pose line is in the output file
    image_times,        \* per query: the query whose processing time the entry is
    local_matching_rate, \* verification with Colmap features, per query: share of correct matches
    day,                \* percentage_stats: day thresholds
    percentages,        \* percentage_stats: returned (per_high, per_medium, per_coarse)
    report,             \* stats: number of wrongly localized queries and of each cause
    point_list,         \* PointCloudSplit: the wrapped list
    val,                \* PointCloudSplit: validation view
    split,              \* PointCloudSplit: every split-th position is a validation position
    idcs,               \* PointCloudSplit: positions of point_list the view holds
    index,              \* __getitem__: the index asked for (-1: none yet)
    item,               \* PointCloudSplit.__getitem__: the element returned (0: none yet)
    self_images,        \* PointCloudImagesFromList: image id -> ids of its valid 3D points
    self_image_ids,     \* PointCloudImagesFromList: the images kept by the constructor
    trp_j,              \* PointCloudImagesFromList.__getitem__: position drawn last (-1: none yet)
    trp_idx             \* PointCloudImagesFromList.__getitem__: image drawn last (0: none yet)

vars == <<images, args, points3d, img_cluster, query_images, query_image_ids, image_ids,
          candidates, indices, query_id, top_neighbor_match, cluster_orig_ids,
          cluster_query, pc, err, matches_forward, matches_reverse, matches,
          point3D_ids, pt_ids_all, data_descs, matched_kpts_cv, matched_pts, correct,
          incorrect, camera_matrices, cm, camera_matrix, distortion_coeff, pnp, success,
          position, quat, inlier_nums, inlier_rates, errors, errors_rot, out_file,
          image_times, local_matching_rate,
          day, percentages, report, point_list, val, split, idcs, index, item,
          self_images, self_image_ids, trp_j, trp_idx>>

pipeline_vars == <<images, args, points3d, img_cluster, query_images, query_image_ids,
                   image_ids, candidates, indices, query_id, top_neighbor_match,
                   cluster_orig_ids, cluster_query>>

dm_vars == <<matches_forward, matches_reverse, matches>>

ml_vars == <<pt_ids_all, data_descs, matched_kpts_cv, matched_pts, correct, incorrect>>

pose_vars == <<camera_matrices, cm, camera_matrix, distortion_coeff, pnp, success,
               position, quat, inlier_nums, inlier_rates, errors, errors_rot, out_file,
               image_times, local_matching_rate>>

stats_vars == <<day, percentages, report>>

dataset_vars == <<point_list, val, split, idcs, index, item,
                  self_images, self_image_ids, trp_j, trp_idx>>

Points == 1..NPts

Abs(x) == IF x < 0 THEN -x ELSE x

Min(a, b) == IF a < b THEN a ELSE b

Range(s) == {s[i] : i \in DOMAIN s}

\* all sequences of length n of pairwise distinct elements of S
RECURSIVE DistinctSeqs(_, _)
DistinctSeqs(S, n) ==
    IF n = 0 THEN {<<>>}
    ELSE UNION {{Append(s, x) : x \in S \ Range(s)} : s \in DistinctSeqs(S, n - 1)}

\* ---- the map ------------------------------------------------------------

\* valid (> 0) entries of images[i].point3D_ids: the points that list i
PointIdsOf(p3d, i) == {p \in DOMAIN p3d : i \in p3d[p]}

RECURSIVE get_img_cluster_loop(_, _, _)
get_img_cluster_loop(ic, p3d, p) ==
    IF p > NPts THEN ic
    ELSE get_img_cluster_loop(
             [img \in DOMAIN ic |-> IF img \in p3d[p] THEN ic[img] \cup p3d[p] ELSE ic[img]],
             p3d, p + 1)

\* an image is left out of its own entry
get_img_cluster_others(imgs, p3d) ==
    [img \in imgs |-> get_img_cluster_loop([i \in imgs |-> {}], p3d, 1)[img] \ {img}]

get_img_cluster(imgs, p3d) ==
    get_img_cluster_loop([img \in imgs |-> {}], p3d, 1)

\* calc_neighbor_match divides by min(#valid points of both images)
calc_neighbor_match_raises(p3d, img_idx, neighbor_idx) ==
    Min(Cardinality(PointIdsOf(p3d, img_idx)), Cardinality(PointIdsOf(p3d, neighbor_idx))) = 0

\* the match rate in percent, rounded down
calc_neighbor_match(p3d, img_idx, neighbor_idx) ==
    LET pt_ids_o == PointIdsOf(p3d, img_idx)
        pt_ids_n == PointIdsOf(p3d, neighbor_idx)
    IN  (100 * Cardinality(pt_ids_o \cap pt_ids_n))
            \div Min(Cardinality(pt_ids_o), Cardinality(pt_ids_n))

RECURSIVE SortedSeq(_)
\* the elements of a set of numbers in ascending order
SortedSeq(S) ==
    IF S = {} THEN <<>>
    ELSE LET m == CHOOSE x \in S : \A y \in S : x <= y
         IN  <<m>> \o SortedSeq(S \ {m})

\* images[i].point3D_ids of a map all of whose keypoints have a 3D point
ValidPointIds(imgs, p3d) == [i \in imgs |-> SortedSeq(PointIdsOf(p3d, i))]

\* ---- setup --------------------------------------------------------------

SeqUpTo(n) == [i \in 1..n |-> i]

Prefix(s, n) == SubSeq(s, 1, Min(n, Len(s)))

\* the ids of the database images in the order of the images dict
ImageIdList(imgs) == SeqUpTo(Cardinality(imgs))

Negated(ids) == [i \in DOMAIN ids |-> -ids[i]]

setup_query_image_ids(a, imgs) ==
    IF a.verify = "None" THEN "None"
    ELSE Prefix(
           (IF a.verify \in {"all", "day"} THEN ImageIdList(imgs) ELSE <<>>)
           \o (IF a.verify \in {"all", "night"} THEN Negated(ImageIdList(imgs)) ELSE <<>>),
           a.overfit)

setup_query_images(a, imgs) ==
    IF a.verify = "None" THEN SeqUpTo(a.overfit)
    ELSE SeqUpTo(Len(setup_query_image_ids(a, imgs)))

setup_img_cluster(a, imgs, p3d) ==
    IF a.cluster THEN get_img_cluster(imgs, p3d) ELSE "None"

\* ---- __main__: print_config and setup (lines 408-432, 1040-1043) ---------

\* raises only if both the local and the global method are unsupported
print_config_raises_both(a) ==
    a.augmentation /\ a.local_method = "Colmap" /\ a.global_method = "NetVLAD"

\* lines 431-432
print_config_raises(a) ==
    a.augmentation /\ (a.local_method = "Colmap" \/ a.global_method = "NetVLAD")

print_config ==
    /\ pc = "print_config"
    /\ IF print_config_raises(args)
       THEN /\ pc' = "error"
            /\ err' = "NotImplementedError"
       ELSE /\ pc' = "setup"
            /\ UNCHANGED err
    /\ UNCHANGED pipeline_vars
    /\ UNCHANGED dm_vars
    /\ UNCHANGED dataset_vars
    /\ UNCHANGED <<point3D_ids, ml_vars, pose_vars, stats_vars>>

\* line 1043: setup loads the map and the queries
setup ==
    /\ pc = "setup"
    /\ img_cluster' = setup_img_cluster(args, images, points3d)
    /\ query_image_ids' = setup_query_image_ids(args, images)
    /\ query_images' = setup_query_images(args, images)
    /\ pc' = "global_neighbors"
    /\ UNCHANGED <<images, args, points3d, image_ids, candidates, indices, query_id,
                   top_neighbor_match, cluster_orig_ids, cluster_query, err>>
    /\ UNCHANGED dm_vars
    /\ UNCHANGED dataset_vars
    /\ UNCHANGED <<point3D_ids, ml_vars, pose_vars, stats_vars>>

\* ---- global_neighbors ---------------------------------------------------

global_image_ids(a, imgs) ==
    ImageIdList(imgs) \o (IF a.augmentation THEN Negated(ImageIdList(imgs)) ELSE <<>>)

requested_neighbors(a) ==
    IF a.verify # "None"
    THEN a.n_neighbors + (IF a.augmentation THEN 2 ELSE 1)
    ELSE a.n_neighbors

\* GlobalMatcher.match: one ranked row per query, min(n_neighbors, N) distinct
\* database positions; the ranking itself depends on the search strategy
MatcherRows(n, db_size) == DistinctSeqs(1..db_size, Min(n, db_size))

RECURSIVE self_removal_loop(_, _, _, _, _)
self_removal_loop(ids, row, k, pos, lst) ==
    IF pos > Len(row) THEN lst
    ELSE LET img_itself == Abs(ids[row[1]])
             lst2 == IF Abs(ids[row[pos]]) # img_itself THEN Append(lst, row[pos]) ELSE lst
         IN  IF Len(lst2) >= k THEN lst2
             ELSE self_removal_loop(ids, row, k, pos + 1, lst2)

\* lines 600-609: the neighbour list kept for one query in verification mode
indices_cut_row(ids, row, k) == self_removal_loop(ids, row, k, 2, <<>>)

\* np.stack raises unless all rows have one length
stack_raises(rows) == \E i, j \in DOMAIN rows : Len(rows[i]) # Len(rows[j])

global_neighbors_indices(a, ids, cand) ==
    IF a.verify # "None"
    THEN [i \in DOMAIN cand |-> indices_cut_row(ids, cand[i], a.n_neighbors)]
    ELSE [i \in DOMAIN cand |-> Prefix(cand[i], requested_neighbors(a))]

global_neighbors ==
    /\ pc = "global_neighbors"
    /\ image_ids' = global_image_ids(args, images)
    /\ candidates' \in [DOMAIN query_images ->
                           MatcherRows(requested_neighbors(args), Len(image_ids'))]
    /\ LET cut == global_neighbors_indices(args, image_ids', candidates')
       IN  IF args.verify # "None" /\ stack_raises(cut)
           THEN /\ pc' = "error"
                /\ err' = "ValueError"
                /\ UNCHANGED indices
           ELSE /\ indices' = cut
                /\ pc' = IF Len(query_images) = 0 THEN "done" ELSE "local_matching"
                /\ err' = "none"
    /\ query_id' = 1
    /\ UNCHANGED <<images, args, points3d, img_cluster, query_images, query_image_ids,
                   top_neighbor_match, cluster_orig_ids, cluster_query>>
    /\ UNCHANGED dm_vars
    /\ UNCHANGED dataset_vars
    /\ UNCHANGED <<point3D_ids, ml_vars, pose_vars, stats_vars>>

\* ---- local_matching: neighbour statistics and clustering (lines 646-686) -

neighbor_ids(ids, row) == [i \in DOMAIN row |-> ids[row[i]]]

RECURSIVE first_cluster_with(_, _, _, _)
\* lines 676-680: position of the first cluster that contains ind, 0 if none
first_cluster_with(ic, orig, ind, j) ==
    IF j > Len(orig) THEN 0
    ELSE IF ind \in ic[orig[j]] THEN j
    ELSE first_cluster_with(ic, orig, ind, j + 1)

RECURSIVE cluster_loop(_, _, _, _)
\* lines 670-683.  cluster_query[j] is the very set object img_cluster[orig[j]]:
\* "cluster_query[j] |= point_set" updates that object in place, and
\* "cluster_query.append(point_set)" appends the object img_cluster[ind].
cluster_loop(ic, orig, nbr, i) ==
    IF i > Len(nbr) THEN [img_cluster |-> ic, cluster_orig_ids |-> orig, err |-> "none"]
    ELSE LET ind == nbr[i] IN
         IF ind \notin DOMAIN ic
         THEN [img_cluster |-> ic, cluster_orig_ids |-> orig, err |-> "KeyError"]
         ELSE LET point_set == ic[ind]
                  j == first_cluster_with(ic, orig, ind, 1)
              IN  IF j > 0
                  THEN cluster_loop([ic EXCEPT ![orig[j]] = @ \cup point_set], orig, nbr, i + 1)
                  ELSE cluster_loop(ic, Append(orig, ind), nbr, i + 1)

\* lines 667-683 with clustering enabled, started from co-visibility map ic
build_clusters(ic, nbr) ==
    IF Len(nbr) = 0
    THEN [img_cluster |-> ic, cluster_orig_ids |-> <<>>, err |-> "IndexError"]
    ELSE IF nbr[1] \notin DOMAIN ic
    THEN [img_cluster |-> ic, cluster_orig_ids |-> <<nbr[1]>>, err |-> "KeyError"]
    ELSE cluster_loop(ic, <<nbr[1]>>, nbr, 2)

\* the sets the entries of cluster_query refer to
clusters_of(ic, orig) == [j \in DOMAIN orig |-> ic[orig[j]]]

\* range(n_neighbors - 1): the last ranked neighbour is left out
no_cluster_query_short(nbr, k) == <<[i \in 1..(k - 1) |-> nbr[i]]>>

\* line 685: the single cluster used when clustering is disabled
no_cluster_query(nbr, k) == <<[i \in 1..k |-> nbr[i]]>>

\* lines 658-665: raises iff some neighbour (or the query) has no valid point
top_neighbors_raise(p3d, qid, nbr) ==
    \E i \in DOMAIN nbr : calc_neighbor_match_raises(p3d, Abs(qid), Abs(nbr[i]))

top_neighbors(p3d, qid, nbr) ==
    [i \in DOMAIN nbr |-> calc_neighbor_match(p3d, Abs(qid), Abs(nbr[i]))]

local_matching_cluster ==
    /\ pc = "local_matching"
    /\ LET nbr == neighbor_ids(image_ids, indices[query_id])
           raise(e) == /\ pc' = "error"
                       /\ err' = e
                       /\ UNCHANGED <<img_cluster, cluster_orig_ids, cluster_query>>
       IN  IF args.verify # "None" /\ top_neighbors_raise(points3d, query_image_ids[query_id], nbr)
           THEN /\ raise("ZeroDivisionError")
                /\ UNCHANGED top_neighbor_match
           ELSE /\ top_neighbor_match' =
                      IF args.verify # "None"
                      THEN Append(top_neighbor_match,
                                  top_neighbors(points3d, query_image_ids[query_id], nbr))
                      ELSE top_neighbor_match
                /\ IF Len(nbr) = 0
                   THEN raise("IndexError")
                   ELSE IF args.cluster
                   THEN LET r == build_clusters(img_cluster, nbr)
                        IN  /\ img_cluster' = r.img_cluster
                            /\ cluster_orig_ids' = r.cluster_orig_ids
                            /\ IF r.err # "none"
                               THEN /\ pc' = "error"
                                    /\ err' = r.err
                                    /\ UNCHANGED cluster_query
                               ELSE /\ cluster_query' = clusters_of(r.img_cluster, r.cluster_orig_ids)
                                    /\ pc' = "match"
                                    /\ UNCHANGED err
                   ELSE IF Len(nbr) < args.n_neighbors
                   THEN raise("IndexError")
                   ELSE /\ cluster_query' = no_cluster_query(nbr, args.n_neighbors)
                        /\ cluster_orig_ids' = <<nbr[1]>>
                        /\ pc' = "match"
                        /\ UNCHANGED <<img_cluster, err>>
    /\ UNCHANGED <<images, args, points3d, query_images, query_image_ids, image_ids,
                   candidates, indices, query_id>>
    /\ UNCHANGED dm_vars
    /\ UNCHANGED dataset_vars
    /\ UNCHANGED <<point3D_ids, ml_vars, pose_vars, stats_vars>>

\* lines 691-819: the rest of the iteration; the loop goes on to the next query
local_matching_next ==
    /\ pc = "match"
    /\ IF query_id < Len(query_images)
       THEN /\ query_id' = query_id + 1
            /\ pc' = "local_matching"
       ELSE /\ pc' = "done"
            /\ UNCHANGED query_id
    /\ UNCHANGED <<images, args, points3d, img_cluster, query_images, query_image_ids,
                   image_ids, candidates, indices, top_neighbor_match,
                   cluster_orig_ids, cluster_query, err>>
    /\ UNCHANGED dm_vars
    /\ UNCHANGED dataset_vars
    /\ UNCHANGED <<point3D_ids, ml_vars, pose_vars, stats_vars>>

\* ---- double_matching (lines 251-264) ------------------------------------

\* LocalMatcher.match(a, b): at most one pair <<i, j>> per descriptor i of a,
\* in ascending order of i
RECURSIVE MatchLists(_, _)
MatchLists(na, nb) ==
    IF na = 0 THEN {<<>>}
    ELSE LET shorter == MatchLists(na - 1, nb)
         IN  shorter \cup {Append(s, <<na, j>>) : s \in shorter, j \in 1..nb}

Column(ms, c) == [i \in DOMAIN ms |-> ms[i][c]]

double_matching_result(fwd, rev) ==
    IF Len(fwd) = 0 \/ Len(rev) = 0 THEN <<>>
    ELSE LET mr == Range(Column(rev, 2))
         IN  SelectSeq(fwd, LAMBDA m : m[1] \in mr)

double_matching ==
    /\ pc = "double_matching"
    /\ matches' = double_matching_result(matches_forward, matches_reverse)
    /\ pc' = "returned"
    /\ UNCHANGED <<matches_forward, matches_reverse, err>>
    /\ UNCHANGED pipeline_vars
    /\ UNCHANGED dataset_vars
    /\ UNCHANGED <<point3D_ids, ml_vars, pose_vars, stats_vars>>

\* ---- match_local (lines 266-370) ----------------------------------------

\* lines 288-289: positions of the keypoints of image i that have a 3D point
ValidKeypoints(pids, i) ==
    SelectSeq(SeqUpTo(Len(pids[i])), LAMBDA k : pids[i][k] > 0)

\* the point ids of all keypoints, the sentinel entries included
pt_ids_unfiltered(pids, img) == pids[Abs(img)]

\* line 289: pt_ids = images[abs(img)].point3D_ids[valid]
pt_ids_of(pids, img) ==
    LET valid == ValidKeypoints(pids, Abs(img))
    IN  [j \in DOMAIN valid |-> pids[Abs(img)][valid[j]]]

\* lines 291-293: the descriptors of the valid keypoints of img; a descriptor
\* is named by its image and keypoint
data_desc_of(pids, img) ==
    LET valid == ValidKeypoints(pids, Abs(img))
    IN  [j \in DOMAIN valid |-> <<img, valid[j]>>]

\* lines 325-328 and 348-351: the match lists the matcher can return
local_matches(double, nq, nd) ==
    IF double
    THEN {double_matching_result(f, r) : f \in MatchLists(nq, nd), r \in MatchLists(nd, nq)}
    ELSE MatchLists(nq, nd)

\* a cluster is a set of image ids with --cluster, a list without;
\* a set of small integers is iterated in ascending order
cluster_members(a, c) == IF a.cluster THEN SortedSeq(c) ELSE c

RECURSIVE Flatten(_)
\* np.concatenate / np.vstack of a list of arrays
Flatten(ss) == IF Len(ss) = 0 THEN <<>> ELSE Head(ss) \o Flatten(Tail(ss))

\* lines 283-286: the images the loops visit, the query image itself left out
\* in verification mode
visited_images(a, qids, q, cq) ==
    Flatten([j \in DOMAIN cq |->
                SelectSeq(cluster_members(a, cq[j]),
                          LAMBDA img : ~(a.verify # "None" /\ Abs(img) = Abs(qids[q])))])

RECURSIVE stage_one_matches(_, _, _, _, _)
\* every choice of the per-image match lists of lines 325-328
stage_one_matches(double, nq, pids, imgs, k) ==
    IF k = 0 THEN {<<>>}
    ELSE {Append(st, m) : st \in stage_one_matches(double, nq, pids, imgs, k - 1),
                          m \in local_matches(double, nq, Len(ValidKeypoints(pids, Abs(imgs[k]))))}

\* the candidates of matches[:,1], taken from arr
selected(arr, ms) == [i \in DOMAIN ms |-> arr[ms[i][2]]]

\* lines 332-335: one array per image the query has a match with, taken
\* from the array arrs[k] of the k-th visited image
pool_lists(stage, arrs) ==
    LET with_matches == SelectSeq(SeqUpTo(Len(stage)), LAMBDA k : Len(stage[k]) > 0)
    IN  [j \in DOMAIN with_matches |->
            selected(arrs[with_matches[j]], stage[with_matches[j]])]

\* lines 337-338: without refiltering the per-image matches are the result
direct_matches(imgs, stage, pids) ==
    Flatten([k \in DOMAIN imgs |->
                [i \in DOMAIN stage[k] |->
                    <<stage[k][i][1], pt_ids_of(pids, imgs[k])[stage[k][i][2]]>>]])

\* line 340: no final pass unless two images contributed
refilter_skipped(pts_lists, desc_lists) == Len(pts_lists) < 1 \/ Len(desc_lists) < 2

\* lines 282, 356-358: pt_ids_o is the first half of the query's point ids,
\* valid_o covers all of them; pt_ids_o[m1] raises for m1 in the second half
verify_count_raises(valid_o, fin) ==
    \E i \in DOMAIN fin : valid_o[fin[i][1]] /\ fin[i][1] > Len(valid_o) \div 2

\* lines 356-361
verify_count(pids_o, pool_pts, fin, same) ==
    Cardinality({i \in DOMAIN fin : /\ pids_o[fin[i][1]] > 0
                                     /\ (pids_o[fin[i][1]] = pool_pts[fin[i][2]]) = same})

match_local ==
    /\ pc = "match_local"
    /\ LET verify_colmap == args.verify # "None" /\ args.local_method = "Colmap"
           refilter == args.no_refilter
           double == args.bidirectional_filtering
           fail(e) == /\ pc' = "error"
                      /\ err' = e
       IN  IF verify_colmap /\ query_image_ids[query_id] \notin DOMAIN point3D_ids
           THEN /\ fail("KeyError")
                /\ UNCHANGED ml_vars
           ELSE LET imgs == visited_images(args, query_image_ids, query_id, cluster_query)
                    nq == IF args.verify # "None"
                          THEN Len(point3D_ids[Abs(query_image_ids[query_id])])
                          ELSE NQueryDesc
                IN  \E stage \in stage_one_matches(double, nq, point3D_ids, imgs, Len(imgs)) :
                      IF ~refilter
                      THEN LET res == direct_matches(imgs, stage, point3D_ids)
                           IN  /\ matched_kpts_cv' = Column(res, 1)
                               /\ matched_pts' = Column(res, 2)
                               /\ pt_ids_all' = <<>>
                               /\ data_descs' = <<>>
                               /\ correct' = 0
                               /\ incorrect' = 0
                               /\ pc' = "matched"
                               /\ UNCHANGED err
                      ELSE LET pts == pool_lists(stage, [k \in DOMAIN imgs |-> pt_ids_of(point3D_ids, imgs[k])])
                               descs == pool_lists(stage, [k \in DOMAIN imgs |-> data_desc_of(point3D_ids, imgs[k])])
                           IN  /\ pt_ids_all' = pts
                               /\ data_descs' = descs
                               /\ IF refilter_skipped(pts, descs)
                                  THEN /\ matched_kpts_cv' = <<>>
                                       /\ matched_pts' = <<>>
                                       /\ correct' = 0
                                       /\ incorrect' = 0
                                       /\ pc' = "matched"
                                       /\ UNCHANGED err
                                  ELSE \E fin \in local_matches(double, nq, Len(Flatten(descs))) :
                                         /\ matched_kpts_cv' = Column(fin, 1)
                                         /\ matched_pts' = selected(Flatten(pts), fin)
                                         /\ IF verify_colmap
                                            THEN LET pids_o == point3D_ids[query_image_ids[query_id]]
                                                     valid_o == [k \in DOMAIN pids_o |-> pids_o[k] > 0]
                                                 IN  IF verify_count_raises(valid_o, fin)
                                                     THEN /\ fail("IndexError")
                                                          /\ UNCHANGED <<correct, incorrect>>
                                                     ELSE /\ correct' = verify_count(pids_o, Flatten(pts), fin, TRUE)
                                                          /\ incorrect' = verify_count(pids_o, Flatten(pts), fin, FALSE)
                                                          /\ pc' = "matched"
                                                          /\ UNCHANGED err
                                            ELSE /\ correct' = 0
                                                 /\ incorrect' = 0
                                                 /\ pc' = "matched"
                                                 /\ UNCHANGED err
    /\ UNCHANGED pipeline_vars
    /\ UNCHANGED dm_vars
    /\ UNCHANGED dataset_vars
    /\ UNCHANGED <<point3D_ids, pose_vars, stats_vars>>

\* ---- local_matching: the query's features and match_local (lines 691-731) -

\* lines 726-728: 100.0 * (correct / float(sci)) if sci > 0 else 0.0
correct_prct(c, i) == IF c + i > 0 THEN (100 * c) \div (c + i) ELSE 0

\* lines 691-731: match_local hands over m correspondences and its counts of
\* correct and incorrect matches, or raises (see match_local); the counts are
\* zero unless the final pass compared the matches with the ground truth
local_matching_match ==
    /\ pc = "match"
    /\ LET counted == args.verify # "None" /\ args.local_method = "Colmap"
       IN  \/ /\ \E m \in 0..MaxMatched :
                 \E counts \in (IF counted /\ args.no_refilter
                                THEN {<<0, 0>>, <<m, 0>>, <<0, m>>}
                                ELSE {<<0, 0>>}) :
                    /\ matched_pts' = [k \in 1..m |-> 1]
                    /\ matched_kpts_cv' = SeqUpTo(m)
                    /\ correct' = counts[1]
                    /\ incorrect' = counts[2]
                    /\ local_matching_rate' =
                          IF counted
                          THEN Append(local_matching_rate, correct_prct(counts[1], counts[2]))
                          ELSE local_matching_rate
              /\ pc' = "pose"
              /\ UNCHANGED err
           \/ /\ counted /\ args.no_refilter
              /\ pc' = "error"
              /\ err' = "IndexError"
              /\ UNCHANGED <<matched_pts, matched_kpts_cv, correct, incorrect,
                             local_matching_rate>>
    /\ UNCHANGED <<pt_ids_all, data_descs>>
    /\ UNCHANGED <<camera_matrices, cm, camera_matrix, distortion_coeff, pnp, success,
                   position, quat, inlier_nums, inlier_rates, errors, errors_rot, out_file,
                   image_times>>
    /\ UNCHANGED pipeline_vars
    /\ UNCHANGED dm_vars
    /\ UNCHANGED dataset_vars
    /\ UNCHANGED <<point3D_ids, stats_vars>>

\* ---- local_matching: pose estimation and bookkeeping (lines 735-819) -----

\* lines 642-644: the median of all known camera matrices
backfall_cm == -1

\* args.verify is not None
verification(a) == a.verify # "None"

\* the solver runs on four correspondences already
solver_invoked_on_four(m) == m > 3

\* line 748: solvePnPRansac runs on more than four correspondences only
solver_invoked(m) == m > 4

\* lines 749-755: what solvePnPRansac can return for m correspondences (its
\* inliers are -1 for None); the solver not invoked leaves success False and
\* inliers None
ransac_results(m) ==
    IF solver_invoked(m)
    THEN [success : BOOLEAN, inliers : {-1} \cup 0..m]
    ELSE {[success |-> FALSE, inliers |-> -1]}

\* lines 757-763
num_inliers_of(inliers) == IF inliers # -1 THEN inliers ELSE 0

\* lines 760-764: 100.0 * inlier_ratio
inlier_rate_of(inliers, m) == IF inliers # -1 THEN (100 * inliers) \div m ELSE 0

\* line 768
accepted(a, r) == r.success /\ num_inliers_of(r.inliers) >= a.min_inliers

\* the errors of a query are recorded only if the query succeeded
error_recorded_on_success(a, ok) == verification(a) /\ ok

\* lines 794-801: in verification mode the errors of every query are recorded
error_recorded(a, ok) == verification(a)

\* the pose line is written whether or not the query succeeded
pose_line_written_always(a, ok) == ~verification(a)

\* lines 811-814: the pose line of a query is written in a normal run, if the
\* query succeeded
pose_line_written(a, ok) == ~verification(a) /\ ok

local_matching_pose ==
    /\ pc = "pose"
    /\ LET known == query_id \in camera_matrices
           cm1 == IF known THEN query_id ELSE cm
       IN  /\ cm' = cm1
           /\ camera_matrix' = IF known THEN query_id ELSE backfall_cm
           /\ IF cm1 = 0
              THEN \* line 745: cm is not bound
                   /\ pc' = "error"
                   /\ err' = "UnboundLocalError"
                   /\ UNCHANGED <<distortion_coeff, pnp, success, position, quat, inlier_nums,
                                  inlier_rates, errors, errors_rot, out_file, image_times,
                                  query_id>>
              ELSE /\ distortion_coeff' = cm1
                   /\ LET m == Len(matched_pts) IN
                      \E r \in ransac_results(m) :
                      \E ret \in (IF accepted(args, r) THEN BOOLEAN ELSE {FALSE}) :
                        /\ pnp' = Append(pnp, [matched |-> m, invoked |-> solver_invoked(m),
                                               success |-> r.success, inliers |-> r.inliers,
                                               refined |-> accepted(args, r), ret |-> ret])
                        /\ inlier_rates' = Append(inlier_rates, inlier_rate_of(r.inliers, m))
                        /\ inlier_nums' = Append(inlier_nums, num_inliers_of(r.inliers))
                        /\ success' = (accepted(args, r) /\ ret)
                        /\ position' = IF accepted(args, r) THEN query_id ELSE position
                        /\ quat' = IF accepted(args, r) THEN query_id ELSE quat
                   /\ IF verification(args) /\ quat' = 0
                      THEN \* line 797: quat is not bound
                           /\ pc' = "error"
                           /\ err' = "UnboundLocalError"
                           /\ UNCHANGED <<errors, errors_rot, out_file, image_times, query_id>>
                      ELSE /\ errors' = IF error_recorded(args, success')
                                        THEN Append(errors, position') ELSE errors
                           /\ errors_rot' = IF error_recorded(args, success')
                                            THEN Append(errors_rot, quat') ELSE errors_rot
                           /\ out_file' = IF pose_line_written(args, success')
                                          THEN Append(out_file, query_images[query_id])
                                          ELSE out_file
                           /\ image_times' = Append(image_times, query_id)
                           /\ IF query_id < Len(query_images)
                              THEN /\ query_id' = query_id + 1
                                   /\ pc' = "local_matching"
                              ELSE /\ pc' = "done"
                                   /\ UNCHANGED query_id
                           /\ UNCHANGED err
    /\ UNCHANGED <<images, args, points3d, img_cluster, query_images, query_image_ids,
                   image_ids, candidates, indices, top_neighbor_match, cluster_orig_ids,
                   cluster_query, camera_matrices, local_matching_rate>>
    /\ UNCHANGED dm_vars
    /\ UNCHANGED dataset_vars
    /\ UNCHANGED <<point3D_ids, ml_vars, stats_vars>>

\* ---- percentage_stats (lines 156-172) ------------------------------------

\* a result on the threshold is not counted
is_high_strict(t, q, d) == IF d THEN t < 25 /\ q < 2 ELSE t < 50 /\ q < 2

\* lines 159-162: 0.25 m / 0.5 m and 2.0 degrees
is_high(t, q, d) == IF d THEN t <= 25 /\ q <= 2 ELSE t <= 50 /\ q <= 2

\* lines 163-166: 0.5 m / 1.0 m and 5.0 degrees
is_medium(t, q, d) == IF d THEN t <= 50 /\ q <= 5 ELSE t <= 100 /\ q <= 5

\* line 167: 5.0 m and 10.0 degrees
is_coarse(t, q) == t <= 500 /\ q <= 10

\* lines 169-171: float(num) / float(len(errors_trans)) * 100.0, as a fraction
percent_of(num, len) == [num |-> 100 * num, den |-> len]

\* zip(errors_trans, errors_rot) stops at the end of the shorter list
percentage_stats_result(errors_trans, rot, d) ==
    LET both == 1..Min(Len(errors_trans), Len(rot))
        num_high == Cardinality({i \in both : is_high(errors_trans[i], rot[i], d)})
        num_medium == Cardinality({i \in both : is_medium(errors_trans[i], rot[i], d)})
        num_coarse == Cardinality({i \in both : is_coarse(errors_trans[i], rot[i])})
    IN  <<percent_of(num_high, Len(errors_trans)),
          percent_of(num_medium, Len(errors_trans)),
          percent_of(num_coarse, Len(errors_trans))>>

percentage_stats ==
    /\ pc = "percentage_stats"
    /\ IF Len(errors) = 0
       THEN /\ pc' = "error"
            /\ err' = "ZeroDivisionError"
            /\ UNCHANGED percentages
       ELSE /\ percentages' = percentage_stats_result(errors, errors_rot, day)
            /\ pc' = "returned"
            /\ UNCHANGED err
    /\ UNCHANGED <<day, report>>
    /\ UNCHANGED pipeline_vars
    /\ UNCHANGED dm_vars
    /\ UNCHANGED dataset_vars
    /\ UNCHANGED <<point3D_ids, ml_vars, pose_vars>>

\* ---- stats: failure causes (lines 824-1021) ------------------------------

Max(S) == CHOOSE x \in S : \A y \in S : y <= x

\* line 950
wrongly_localized(t, q) == t > 500 \/ q > 10

\* line 972: bn, from the match rates of the ranked neighbours of the query
bad_neighbors(tn) == ~(Max(Range(tn)) > 0)

\* few inliers, whatever the neighbours are
few_inliers_any(n, tn) == n < 12

\* line 985: fi
few_inliers(n, tn) == n < 12 /\ ~bad_neighbors(tn)

\* line 998: li
low_inlier_rate(rate, n, tn) == rate < 10 /\ ~few_inliers(n, tn) /\ ~bad_neighbors(tn)

\* line 1011: ot
other_cause(rate, n, tn) ==
    ~low_inlier_rate(rate, n, tn) /\ ~few_inliers(n, tn) /\ ~bad_neighbors(tn)

\* lines 950-1021: the wrongly localized queries and the queries counted
\* for each cause (bni, fii, lii, oti); nothing is reported without a
\* wrongly localized query
stats_report(err_t, err_r, tnm, rates, nums) ==
    LET valid == {i \in DOMAIN err_t : wrongly_localized(err_t[i], err_r[i])}
    IN  [wrong |-> valid,
         wrong_neighbors |-> {i \in valid : bad_neighbors(tnm[i])},
         few_inliers |-> {i \in valid : few_inliers(nums[i], tnm[i])},
         low_inlier_rate |-> {i \in valid : low_inlier_rate(rates[i], nums[i], tnm[i])},
         other |-> {i \in valid : other_cause(rates[i], nums[i], tnm[i])}]

stats ==
    /\ pc = "stats"
    /\ IF Len(inlier_nums) = 0
       THEN \* line 829: np.max of an empty array
            /\ pc' = "error"
            /\ err' = "ValueError"
            /\ UNCHANGED <<percentages, report>>
       ELSE /\ pc' = "done"
            /\ UNCHANGED err
            /\ IF verification(args)
               THEN /\ percentages' = percentage_stats_result(errors, errors_rot, TRUE)
                    /\ report' = stats_report(errors, errors_rot, top_neighbor_match,
                                              inlier_rates, inlier_nums)
               ELSE UNCHANGED <<percentages, report>>
    /\ UNCHANGED day
    /\ UNCHANGED pipeline_vars
    /\ UNCHANGED dm_vars
    /\ UNCHANGED dataset_vars
    /\ UNCHANGED <<point3D_ids, ml_vars, pose_vars>>

\* ---- PointCloudSplit (genericdataset.py lines 42-64) ---------------------

RECURSIVE PointCloudSplit_idcs_shifted(_, _, _)
\* the validation positions are those with (i + 1) % split == 0
PointCloudSplit_idcs_shifted(n, s, v) ==
    IF n = 0 THEN <<>>
    ELSE LET before == PointCloudSplit_idcs_shifted(n - 1, s, v)
         IN  IF (n % s = 0) = v THEN Append(before, n - 1) ELSE before

RECURSIVE PointCloudSplit_idcs(_, _, _)
\* lines 50-57: the loop over range(len(point_list)), up to position n - 1
PointCloudSplit_idcs(n, s, v) ==
    IF n = 0 THEN <<>>
    ELSE LET before == PointCloudSplit_idcs(n - 1, s, v)
             i == n - 1
         IN  IF i % s = 0
             THEN (IF v THEN Append(before, i) ELSE before)
             ELSE (IF ~v THEN Append(before, i) ELSE before)

\* lines 63-64
PointCloudSplit_len(ids) == Len(ids)

\* lines 47-57
PointCloudSplit_init ==
    /\ pc = "PointCloudSplit.__init__"
    /\ idcs' = PointCloudSplit_idcs(Len(point_list), split, val)
    /\ pc' = "PointCloudSplit"
    /\ UNCHANGED <<point_list, val, split, index, item, self_images, self_image_ids,
                   trp_j, trp_idx, err>>
    /\ UNCHANGED pipeline_vars
    /\ UNCHANGED dm_vars
    /\ UNCHANGED <<point3D_ids, ml_vars, pose_vars, stats_vars>>

\* lines 59-61: idx = self.idcs[index]; return self.point_list[idx]
PointCloudSplit_getitem ==
    /\ pc = "PointCloudSplit"
    /\ \E i \in 0..MaxList :
          /\ index' = i
          /\ IF i < Len(idcs)
             THEN /\ item' = point_list[idcs[i + 1] + 1]
                  /\ UNCHANGED <<pc, err>>
             ELSE /\ pc' = "error"
                  /\ err' = "IndexError"
                  /\ UNCHANGED item
    /\ UNCHANGED <<point_list, val, split, idcs, self_images, self_image_ids,
                   trp_j, trp_idx>>
    /\ UNCHANGED pipeline_vars
    /\ UNCHANGED dm_vars
    /\ UNCHANGED <<point3D_ids, ml_vars, pose_vars, stats_vars>>

\* ---- PointCloudImagesFromList (genericdataset.py lines 66-156) -----------

\* lines 79-99: the images with more than min_num_points valid 3D points, in
\* the order of images.keys(); the filter on the spread of the points is off
\* (max_std_std = inf)
kept_image_ids(imgs, min_num_points) ==
    SortedSeq({i \in DOMAIN imgs : Cardinality(imgs[i]) > min_num_points})

\* lines 154-155: shared.shape[0] < pt_ids.shape[0] * 0.01
little_overlap(pt_ids, pt_ids_trp) ==
    100 * Cardinality(pt_ids \cap pt_ids_trp) < Cardinality(pt_ids)

\* lines 150-152: a pass of the while True loop begins, randint drawing k
sample(k) ==
    /\ pc = "sampling"
    /\ k < Len(self_image_ids)
    /\ trp_j' = k
    /\ trp_idx' = self_image_ids[k + 1]
    /\ pc' = "drawn"
    /\ UNCHANGED <<point_list, val, split, idcs, index, item, self_images,
                   self_image_ids, err>>
    /\ UNCHANGED pipeline_vars
    /\ UNCHANGED dm_vars
    /\ UNCHANGED <<point3D_ids, ml_vars, pose_vars, stats_vars>>

\* lines 153-156: the pass ends the loop if the image drawn shares little
\* with the anchor, and is followed by another pass otherwise
negative_test ==
    /\ pc = "drawn"
    /\ pc' = IF little_overlap(self_images[self_image_ids[index + 1]],
                               self_images[trp_idx])
             THEN "negative"
             ELSE "sampling"
    /\ UNCHANGED <<point_list, val, split, idcs, index, item, self_images,
                   self_image_ids, trp_j, trp_idx, err>>
    /\ UNCHANGED pipeline_vars
    /\ UNCHANGED dm_vars
    /\ UNCHANGED <<point3D_ids, ml_vars, pose_vars, stats_vars>>

\* ---- specifications -----------------------------------------------------

\* lines 268-278: match_local has collected nothing
NoMatchLocal ==
    /\ pt_ids_all = <<>>
    /\ data_descs = <<>>
    /\ matched_kpts_cv = <<>>
    /\ matched_pts = <<>>
    /\ correct = 0
    /\ incorrect = 0

\* no dataset of genericdataset.py has been built
NoDataset ==
    /\ point_list = <<>>
    /\ val = FALSE
    /\ split = 1
    /\ idcs = <<>>
    /\ index = -1
    /\ item = 0
    /\ self_images = <<>>
    /\ self_image_ids = <<>>
    /\ trp_j = -1
    /\ trp_idx = 0

\* lines 630-635: no query has been processed
NoPose ==
    /\ camera_matrices = {}
    /\ cm = 0
    /\ camera_matrix = 0
    /\ distortion_coeff = 0
    /\ pnp = <<>>
    /\ success = FALSE
    /\ position = 0
    /\ quat = 0
    /\ inlier_nums = <<>>
    /\ inlier_rates = <<>>
    /\ errors = <<>>
    /\ errors_rot = <<>>
    /\ out_file = <<>>
    /\ image_times = <<>>
    /\ local_matching_rate = <<>>

\* stats has not run
NoStats ==
    /\ day = TRUE
    /\ percentages = <<>>
    /\ report = <<>>

InitConfig(a) ==
    /\ args = a
    /\ img_cluster = setup_img_cluster(a, images, points3d)
    /\ query_image_ids = setup_query_image_ids(a, images)
    /\ query_images = setup_query_images(a, images)
    /\ image_ids = <<>>
    /\ candidates = <<>>
    /\ indices = <<>>
    /\ query_id = 1
    /\ top_neighbor_match = <<>>
    /\ cluster_orig_ids = <<>>
    /\ cluster_query = <<>>
    /\ err = "none"

\* the state __main__ is in when setup(args) has returned; default run
\* without --augmentation
Init ==
    /\ images = 1..NImg
    /\ points3d \in [Points -> (SUBSET images) \ {{}}]
    /\ \E a \in [verify : {"None", "all", "day", "night"}, cluster : BOOLEAN,
                 augmentation : {FALSE}, n_neighbors : 1..MaxNeighbors,
                 overfit : {NQueries}] : InitConfig(a)
    /\ pc = "global_neighbors"
    /\ matches_forward = <<>>
    /\ matches_reverse = <<>>
    /\ matches = <<>>
    /\ NoDataset
    /\ point3D_ids = ValidPointIds(images, points3d)
    /\ NoMatchLocal
    /\ NoPose
    /\ NoStats

Next ==
    \/ global_neighbors
    \/ local_matching_cluster
    \/ local_matching_next

Spec == Init /\ [][Next]_vars

\* a batch with clustering and two neighbours per query on a larger map
InitCov ==
    /\ images = 1..NImgCov
    /\ points3d \in [Points -> (SUBSET images) \ {{}}]
    /\ InitConfig([verify |-> "None", cluster |-> TRUE, augmentation |-> FALSE,
                   n_neighbors |-> 2, overfit |-> NQueries])
    /\ pc = "global_neighbors"
    /\ matches_forward = <<>>
    /\ matches_reverse = <<>>
    /\ matches = <<>>
    /\ NoDataset
    /\ point3D_ids = ValidPointIds(images, points3d)
    /\ NoMatchLocal
    /\ NoPose
    /\ NoStats

SpecCov == InitCov /\ [][Next]_vars

\* the batches run without --cluster, which reads the map only for the
\* neighbour statistics of verification mode: on a map whose points are seen
\* by every image, and on one where image 1 sees no point
InitNoCluster ==
    /\ images = 1..NImg
    /\ points3d \in {[p \in Points |-> images], [p \in Points |-> images \ {1}]}
    /\ \E a \in [verify : {"None", "all", "day", "night"}, cluster : {FALSE},
                 augmentation : {FALSE}, n_neighbors : 1..MaxNeighbors,
                 overfit : {NQueries}] : InitConfig(a)
    /\ pc = "global_neighbors"
    /\ matches_forward = <<>>
    /\ matches_reverse = <<>>
    /\ matches = <<>>
    /\ NoDataset
    /\ point3D_ids = ValidPointIds(images, points3d)
    /\ NoMatchLocal
    /\ NoPose
    /\ NoStats

SpecNoCluster == InitNoCluster /\ [][Next]_vars

\* double_matching on every pair of match lists the local matcher can return
InitDM ==
    /\ images = 1..NImg
    /\ points3d = [p \in Points |-> images]
    /\ InitConfig([verify |-> "None", cluster |-> FALSE, augmentation |-> FALSE,
                   n_neighbors |-> 1, overfit |-> NQueries])
    /\ pc = "double_matching"
    /\ matches_forward \in MatchLists(NQueryDesc, NDataDesc)
    /\ matches_reverse \in MatchLists(NDataDesc, NQueryDesc)
    /\ matches = <<>>
    /\ NoDataset
    /\ point3D_ids = ValidPointIds(images, points3d)
    /\ NoMatchLocal
    /\ NoPose
    /\ NoStats

NextDM == double_matching

SpecDM == InitDM /\ [][NextDM]_vars

\* match_local on the single cluster of two ranked neighbours, every keypoint
\* of the map with a 3D point or the first keypoint of some images without
KeypointLists ==
    {[k \in 1..NDataDesc |-> ((k - 1) % NPts) + 1],
     [k \in 1..NDataDesc |-> IF k = 1 THEN -1 ELSE ((k - 1) % NPts) + 1]}

InitML ==
    /\ images = 1..NImg
    /\ point3D_ids \in [images -> KeypointLists]
    /\ points3d = [p \in Points |-> {i \in images : p \in Range(point3D_ids[i])}]
    /\ \E a \in [verify : {"None", "all"}, cluster : {FALSE}, augmentation : {FALSE},
                 n_neighbors : {2}, overfit : {NQueries}, local_method : {"Colmap"},
                 no_refilter : BOOLEAN, bidirectional_filtering : {FALSE}] :
          /\ args = a
          /\ img_cluster = setup_img_cluster(a, images, points3d)
          /\ query_image_ids = setup_query_image_ids(a, images)
          /\ query_images = setup_query_images(a, images)
          /\ image_ids = global_image_ids(a, images)
          /\ \E row \in {<<3, 1, 2>>, <<1, 2, 3>>} :
                candidates = [q \in DOMAIN query_images |-> Prefix(row, requested_neighbors(a))]
          /\ indices = global_neighbors_indices(a, image_ids, candidates)
          /\ query_id = 1
          /\ top_neighbor_match =
                IF a.verify # "None"
                THEN <<top_neighbors(points3d, query_image_ids[1], neighbor_ids(image_ids, indices[1]))>>
                ELSE <<>>
          /\ cluster_orig_ids = <<neighbor_ids(image_ids, indices[1])[1]>>
          /\ cluster_query = no_cluster_query(neighbor_ids(image_ids, indices[1]), a.n_neighbors)
    /\ pc = "match_local"
    /\ err = "none"
    /\ matches_forward = <<>>
    /\ matches_reverse = <<>>
    /\ matches = <<>>
    /\ NoDataset
    /\ NoMatchLocal
    /\ NoPose
    /\ NoStats

NextML == match_local

SpecML == InitML /\ [][NextML]_vars

\* the query loop after the neighbour search ranked every query image first
\* and the next image second, for every number of correspondences match_local
\* can hand over and every set of queries with an intrinsics record
InitPose ==
    /\ images = 1..NImg
    /\ points3d = [p \in Points |-> images]
    /\ \E a \in [verify : {"None", "all"}, cluster : {FALSE}, augmentation : {FALSE},
                 n_neighbors : {1}, overfit : {NQueries}, local_method : {"Colmap"},
                 no_refilter : {TRUE}, min_inliers : {MaxMatched - 1, MaxMatched}] :
          /\ args = a
          /\ img_cluster = setup_img_cluster(a, images, points3d)
          /\ query_image_ids = setup_query_image_ids(a, images)
          /\ query_images = setup_query_images(a, images)
          /\ image_ids = global_image_ids(a, images)
          /\ candidates = [q \in DOMAIN query_images |->
                              Prefix(<<q, (q % NImg) + 1>>, requested_neighbors(a))]
          /\ indices = global_neighbors_indices(a, image_ids, candidates)
    /\ query_id = 1
    /\ top_neighbor_match = <<>>
    /\ cluster_orig_ids = <<>>
    /\ cluster_query = <<>>
    /\ err = "none"
    /\ pc = "local_matching"
    /\ matches_forward = <<>>
    /\ matches_reverse = <<>>
    /\ matches = <<>>
    /\ NoDataset
    /\ point3D_ids = ValidPointIds(images, points3d)
    /\ NoMatchLocal
    /\ camera_matrices \in SUBSET (1..NQueries)
    /\ cm = 0
    /\ camera_matrix = 0
    /\ distortion_coeff = 0
    /\ pnp = <<>>
    /\ success = FALSE
    /\ position = 0
    /\ quat = 0
    /\ inlier_nums = <<>>
    /\ inlier_rates = <<>>
    /\ errors = <<>>
    /\ errors_rot = <<>>
    /\ out_file = <<>>
    /\ image_times = <<>>
    /\ local_matching_rate = <<>>
    /\ NoStats

NextPose ==
    \/ local_matching_cluster
    \/ local_matching_match
    \/ local_matching_pose

SpecPose == InitPose /\ [][NextPose]_vars

\* the start of __main__ for every combination of methods: the arguments are
\* parsed, nothing is loaded
InitStart ==
    /\ images = 1..NImg
    /\ points3d = [p \in Points |-> images]
    /\ args \in [verify : {"None", "all"}, cluster : BOOLEAN, augmentation : BOOLEAN,
                 n_neighbors : {1}, overfit : {1},
                 local_method : {"Colmap", "Superpoint", "D2"},
                 global_method : {"Cirtorch", "NetVLAD"}]
    /\ img_cluster = <<>>
    /\ query_image_ids = <<>>
    /\ query_images = <<>>
    /\ image_ids = <<>>
    /\ candidates = <<>>
    /\ indices = <<>>
    /\ query_id = 0
    /\ top_neighbor_match = <<>>
    /\ cluster_orig_ids = <<>>
    /\ cluster_query = <<>>
    /\ pc = "print_config"
    /\ err = "none"
    /\ matches_forward = <<>>
    /\ matches_reverse = <<>>
    /\ matches = <<>>
    /\ NoDataset
    /\ point3D_ids = ValidPointIds(images, points3d)
    /\ NoMatchLocal
    /\ NoPose
    /\ NoStats

NextStart ==
    \/ print_config
    \/ setup
    \/ global_neighbors

SpecStart == InitStart /\ [][NextStart]_vars

RECURSIVE SeqsUpTo(_, _)
\* the sequences over S of length at most n
SeqsUpTo(S, n) ==
    IF n = 0 THEN {<<>>}
    ELSE LET shorter == SeqsUpTo(S, n - 1)
         IN  shorter \cup {Append(x, y) : x \in {z \in shorter : Len(z) = n - 1}, y \in S}

\* errors on and next to the thresholds of the tiers: <<cm, degrees>>
ResultSamples == {20, 25, 26, 50, 51, 500, 501} \X {1, 2, 3, 5, 6, 10, 11}

\* percentage_stats on every list of at most NResults results
InitPS ==
    /\ images = 1..NImg
    /\ points3d = [p \in Points |-> images]
    /\ InitConfig([verify |-> "all", cluster |-> FALSE, augmentation |-> FALSE,
                   n_neighbors |-> 1, overfit |-> NQueries])
    /\ pc = "percentage_stats"
    /\ matches_forward = <<>>
    /\ matches_reverse = <<>>
    /\ matches = <<>>
    /\ NoDataset
    /\ point3D_ids = ValidPointIds(images, points3d)
    /\ NoMatchLocal
    /\ camera_matrices = {}
    /\ cm = 0
    /\ camera_matrix = 0
    /\ distortion_coeff = 0
    /\ pnp = <<>>
    /\ success = FALSE
    /\ position = 0
    /\ quat = 0
    /\ inlier_nums = <<>>
    /\ inlier_rates = <<>>
    /\ \E res \in SeqsUpTo(ResultSamples, NResults) :
          /\ errors = Column(res, 1)
          /\ errors_rot = Column(res, 2)
    /\ out_file = <<>>
    /\ image_times = <<>>
    /\ local_matching_rate = <<>>
    /\ day \in BOOLEAN
    /\ percentages = <<>>
    /\ report = <<>>

NextPS == percentage_stats

SpecPS == InitPS /\ [][NextPS]_vars

\* stats after a verification batch of NQueries queries with one neighbour
\* each, the errors, inlier counts, inlier rates and neighbour match rates on
\* either side of the limits of the failure causes
InitStats ==
    /\ images = 1..NImg
    /\ points3d = [p \in Points |-> images]
    /\ \E v \in {"None", "all"} :
          /\ args = [verify |-> v, cluster |-> FALSE, augmentation |-> FALSE,
                     n_neighbors |-> 1, overfit |-> NQueries]
          /\ img_cluster = setup_img_cluster(args, images, points3d)
          /\ query_image_ids = setup_query_image_ids(args, images)
          /\ query_images = SeqUpTo(NQueries)
          /\ image_ids = global_image_ids(args, images)
          /\ candidates = [q \in 1..NQueries |-> <<1, 2>>]
          /\ indices = [q \in 1..NQueries |-> <<2>>]
          /\ query_id = NQueries
          /\ cluster_orig_ids = <<2>>
          /\ cluster_query = <<<<2>>>>
          /\ IF v = "None"
             THEN /\ top_neighbor_match = <<>>
                  /\ errors = <<>>
                  /\ errors_rot = <<>>
             ELSE /\ top_neighbor_match \in [1..NQueries -> [1..1 -> {0, 100}]]
                  /\ errors \in [1..NQueries -> {500, 501}]
                  /\ errors_rot \in [1..NQueries -> {10, 11}]
          /\ inlier_nums \in [1..NQueries -> IF v = "None" THEN {12} ELSE {11, 12}]
          /\ inlier_rates \in [1..NQueries -> IF v = "None" THEN {10} ELSE {9, 10}]
    /\ pc = "stats"
    /\ err = "none"
    /\ matches_forward = <<>>
    /\ matches_reverse = <<>>
    /\ matches = <<>>
    /\ NoDataset
    /\ point3D_ids = ValidPointIds(images, points3d)
    /\ NoMatchLocal
    /\ camera_matrices = {}
    /\ cm = 0
    /\ camera_matrix = 0
    /\ distortion_coeff = 0
    /\ pnp = <<>>
    /\ success = FALSE
    /\ position = 0
    /\ quat = 0
    /\ out_file = <<>>
    /\ image_times = SeqUpTo(NQueries)
    /\ local_matching_rate = <<>>
    /\ NoStats

NextStats == stats

SpecStats == InitStats /\ [][NextStats]_vars

\* the report of a verification run over day or night queries (lines 468-476):
\* results around the high and medium thresholds of both kinds
InitReport ==
    /\ images = 1..NImg
    /\ points3d = [p \in Points |-> images]
    /\ \E v \in {"day", "night"} :
          /\ args = [verify |-> v, cluster |-> FALSE, augmentation |-> FALSE,
                     n_neighbors |-> 1, overfit |-> NQueries]
          /\ img_cluster = setup_img_cluster(args, images, points3d)
          /\ query_image_ids = setup_query_image_ids(args, images)
          /\ query_images = SeqUpTo(NQueries)
          /\ image_ids = global_image_ids(args, images)
    /\ candidates = [q \in 1..NQueries |-> <<1, 2>>]
    /\ indices = [q \in 1..NQueries |-> <<2>>]
    /\ query_id = NQueries
    /\ cluster_orig_ids = <<2>>
    /\ cluster_query = <<<<2>>>>
    /\ top_neighbor_match = [q \in 1..NQueries |-> <<100>>]
    /\ errors \in [1..NQueries -> {25, 26, 50, 51, 100, 101}]
    /\ errors_rot \in [1..NQueries -> {2, 3, 5, 6}]
    /\ inlier_nums = [q \in 1..NQueries |-> 12]
    /\ inlier_rates = [q \in 1..NQueries |-> 10]
    /\ pc = "stats"
    /\ err = "none"
    /\ matches_forward = <<>>
    /\ matches_reverse = <<>>
    /\ matches = <<>>
    /\ NoDataset
    /\ point3D_ids = ValidPointIds(images, points3d)
    /\ NoMatchLocal
    /\ camera_matrices = {}
    /\ cm = 0
    /\ camera_matrix = 0
    /\ distortion_coeff = 0
    /\ pnp = <<>>
    /\ success = FALSE
    /\ position = 0
    /\ quat = 0
    /\ out_file = <<>>
    /\ image_times = SeqUpTo(NQueries)
    /\ local_matching_rate = <<>>
    /\ NoStats

SpecReport == InitReport /\ [][NextStats]_vars

\* match_local for the first query of a map whose database images other than
\* image 1 have a first keypoint without a 3D point
InitMLReturn ==
    /\ images = 1..NImg
    /\ \E first \in KeypointLists, other \in {kl \in KeypointLists : kl[1] < 0} :
          point3D_ids = [i \in images |-> IF i = 1 THEN first ELSE other]
    /\ points3d = [p \in Points |-> {i \in images : p \in Range(point3D_ids[i])}]
    /\ \E a \in [verify : {"None", "all"}, cluster : {FALSE}, augmentation : {FALSE},
                 n_neighbors : {2}, overfit : {NQueries}, local_method : {"Colmap"},
                 no_refilter : BOOLEAN, bidirectional_filtering : {FALSE}] :
          /\ args = a
          /\ img_cluster = setup_img_cluster(a, images, points3d)
          /\ query_image_ids = setup_query_image_ids(a, images)
          /\ query_images = setup_query_images(a, images)
          /\ image_ids = global_image_ids(a, images)
          /\ candidates = [q \in DOMAIN query_images |-> Prefix(<<1, 2, 3>>, requested_neighbors(a))]
          /\ indices = global_neighbors_indices(a, image_ids, candidates)
          /\ query_id = 1
          /\ top_neighbor_match =
                IF a.verify # "None"
                THEN <<top_neighbors(points3d, query_image_ids[1], neighbor_ids(image_ids, indices[1]))>>
                ELSE <<>>
          /\ cluster_orig_ids = <<neighbor_ids(image_ids, indices[1])[1]>>
          /\ cluster_query = no_cluster_query(neighbor_ids(image_ids, indices[1]), a.n_neighbors)
    /\ pc = "match_local"
    /\ err = "none"
    /\ matches_forward = <<>>
    /\ matches_reverse = <<>>
    /\ matches = <<>>
    /\ NoDataset
    /\ NoMatchLocal
    /\ NoPose
    /\ NoStats

SpecMLReturn == InitMLReturn /\ [][NextML]_vars

\* the evaluation pipeline is idle while a dataset is used
NoPipeline ==
    /\ images = {}
    /\ args = [verify |-> "None", cluster |-> FALSE, augmentation |-> FALSE,
               n_neighbors |-> 1, overfit |-> 0]
    /\ points3d = <<>>
    /\ img_cluster = "None"
    /\ query_images = <<>>
    /\ query_image_ids = "None"
    /\ image_ids = <<>>
    /\ candidates = <<>>
    /\ indices = <<>>
    /\ query_id = 1
    /\ top_neighbor_match = <<>>
    /\ cluster_orig_ids = <<>>
    /\ cluster_query = <<>>
    /\ err = "none"
    /\ matches_forward = <<>>
    /\ matches_reverse = <<>>
    /\ matches = <<>>
    /\ point3D_ids = <<>>
    /\ NoMatchLocal
    /\ NoPose
    /\ NoStats

\* every list of at most MaxList elements, either view, every split >= 1
InitSplit ==
    /\ point_list \in SeqsUpTo({1, 2}, MaxList)
    /\ val \in BOOLEAN
    /\ split \in 1..MaxSplit
    /\ idcs = <<>>
    /\ index = -1
    /\ item = 0
    /\ self_images = <<>>
    /\ self_image_ids = <<>>
    /\ trp_j = -1
    /\ trp_idx = 0
    /\ pc = "PointCloudSplit.__init__"
    /\ NoPipeline

NextSplit == PointCloudSplit_init \/ PointCloudSplit_getitem

SpecSplit == InitSplit /\ [][NextSplit]_vars

\* __getitem__ of a triplet dataset about to draw the negative, for every
\* anchor of every dataset the constructor accepts
InitTriplet ==
    /\ self_images \in [1..NImg -> SUBSET Points]
    /\ \E min_num_points \in {0, 1} :
          self_image_ids = kept_image_ids(self_images, min_num_points)
    /\ Len(self_image_ids) > 0
    /\ index \in 0..(Len(self_image_ids) - 1)
    /\ trp_j = -1
    /\ trp_idx = 0
    /\ point_list = <<>>
    /\ val = FALSE
    /\ split = 1
    /\ idcs = <<>>
    /\ item = 0
    /\ pc = "sampling"
    /\ NoPipeline

NextTriplet ==
    \/ \E k \in 0..(NImg - 1) : sample(k)
    \/ negative_test

\* the loop keeps running, and random.randint draws every position again and
\* again
SpecTriplet ==
    /\ InitTriplet
    /\ [][NextTriplet]_vars
    /\ WF_vars(negative_test)
    /\ \A k \in 0..(NImg - 1) : SF_vars(sample(k))

\* print_config and setup with clustering, for every map over the images and
\* points in which every 3D point is observed by some image
InitSetup ==
    /\ images = 1..NImg
    /\ points3d \in [Points -> (SUBSET images) \ {{}}]
    /\ args \in [verify : {"None"}, cluster : BOOLEAN, augmentation : {FALSE},
                 n_neighbors : {1}, overfit : {1},
                 local_method : {"Colmap"}, global_method : {"Cirtorch"}]
    /\ img_cluster = <<>>
    /\ query_image_ids = <<>>
    /\ query_images = <<>>
    /\ image_ids = <<>>
    /\ candidates = <<>>
    /\ indices = <<>>
    /\ query_id = 0
    /\ top_neighbor_match = <<>>
    /\ cluster_orig_ids = <<>>
    /\ cluster_query = <<>>
    /\ pc = "print_config"
    /\ err = "none"
    /\ matches_forward = <<>>
    /\ matches_reverse = <<>>
    /\ matches = <<>>
    /\ NoDataset
    /\ point3D_ids = ValidPointIds(images, points3d)
    /\ NoMatchLocal
    /\ NoPose
    /\ NoStats

NextSetup ==
    \/ print_config
    \/ setup

SpecSetup == InitSetup /\ [][NextSetup]_vars

\* a batch with clustering and --augmentation: the database holds every
\* image and its augmented copy
InitAug ==
    /\ images = 1..NImg
    /\ points3d = [p \in Points |-> images]
    /\ \E a \in [verify : {"None"}, cluster : {TRUE}, augmentation : {TRUE},
                 n_neighbors : 1..2, overfit : {NQueries}] : InitConfig(a)
    /\ pc = "global_neighbors"
    /\ matches_forward = <<>>
    /\ matches_reverse = <<>>
    /\ matches = <<>>
    /\ NoDataset
    /\ point3D_ids = ValidPointIds(images, points3d)
    /\ NoMatchLocal
    /\ NoPose
    /\ NoStats

SpecAug == InitAug /\ [][Next]_vars

\* ---- reference notions used by the properties ---------------------------

\* the co-visibility relation of the map: images that share a 3D point with i
CoVisible(i) ==
    {j \in images : PointIdsOf(points3d, i) \cap PointIdsOf(points3d, j) # {}}

\* ids of the ranked neighbours of the query being processed
CurrentNeighbors == neighbor_ids(image_ids, indices[query_id])

\* the clusters are handed to match_local for the current query
ClustersHandedOver == pc = "match" /\ args.cluster

\* the cluster builder as section 4.2 states it, on values (no shared sets)
RECURSIVE GreedyClusters(_, _, _)
GreedyClusters(cs, nbr, i) ==
    IF i > Len(nbr) THEN cs
    ELSE LET hits == {j \in DOMAIN cs : nbr[i] \in cs[j]}
         IN  IF hits # {}
             THEN LET first == CHOOSE j \in hits : \A h \in hits : j <= h
                  IN  GreedyClusters([cs EXCEPT ![first] = @ \cup CoVisible(nbr[i])], nbr, i + 1)
             ELSE GreedyClusters(Append(cs, CoVisible(nbr[i])), nbr, i + 1)

\* candidates of query q that do not refer to the query image itself
NonSelfCandidates(q) ==
    SelectSeq(candidates[q],
              LAMBDA idx : Abs(image_ids[idx]) # Abs(query_image_ids[q]))

\* global_neighbors has returned the neighbour lists
NeighborsReturned == pc \in {"local_matching", "match", "done"} \/ (pc = "error" /\ indices # <<>>)

\* ---- C1 -----------------------------------------------------------------
\* C1: building the clusters of a query leaves every entry of the shared
\* co-visibility map img_cluster exactly as get_img_cluster produced it.
C1_ImgClusterNeverWritten ==
    args.cluster => img_cluster = get_img_cluster(images, points3d)

\* ---- C2 -----------------------------------------------------------------
\* C2: the clusters handed to the matcher for a query are the clusters the
\* same neighbour list yields when the query is the first of its batch, so
\* they do not depend on the queries processed before it.
C2_ClustersIndependentOfEarlierQueries ==
    ClustersHandedOver =>
        LET alone == build_clusters(get_img_cluster(images, points3d), CurrentNeighbors)
        IN  cluster_query = clusters_of(alone.img_cluster, alone.cluster_orig_ids)

\* ---- C3 -----------------------------------------------------------------
\* C3: the clusters are those of the greedy single pass over the ranked
\* neighbours: the first neighbour's co-visibility set seeds cluster 1, a
\* later neighbour found in a cluster has its co-visibility set merged into
\* the earliest such cluster only, any other neighbour appends a new cluster.
C3_GreedySinglePassClusters ==
    ClustersHandedOver =>
        cluster_query = GreedyClusters(<<CoVisible(CurrentNeighbors[1])>>, CurrentNeighbors, 2)

\* ---- C4 -----------------------------------------------------------------
\* C4: the union of the output clusters equals the union of the
\* co-visibility sets of the ranked neighbours.
C4_ClusterUnionIsNeighborCoverage ==
    ClustersHandedOver =>
        UNION Range(cluster_query) = UNION {CoVisible(n) : n \in Range(CurrentNeighbors)}

\* ---- C5 -----------------------------------------------------------------
\* C5: in verification mode no kept neighbour refers to the query image
\* itself, whatever rank the self-match had among the candidates.
C5_NoSelfMatchKept ==
    (args.verify # "None" /\ NeighborsReturned) =>
        \A q \in DOMAIN indices : \A i \in DOMAIN indices[q] :
            Abs(image_ids[indices[q][i]]) # Abs(query_image_ids[q])

\* ---- C6 -----------------------------------------------------------------
\* C6: in verification mode the kept list is the first n_neighbors non-self
\* candidates in rank order (all of them when there are fewer); outside
\* verification mode it is the first n_neighbors candidates.
C6_KeptListIsFirstKNonSelf ==
    NeighborsReturned =>
        \A q \in DOMAIN indices :
            indices[q] = IF args.verify # "None"
                         THEN Prefix(NonSelfCandidates(q), args.n_neighbors)
                         ELSE Prefix(candidates[q], args.n_neighbors)

\* ---- C7 -----------------------------------------------------------------
\* C7: when a query's neighbour list has fewer than n_neighbors entries,
\* collecting the lists and building the query's clusters raise no error.
C7_ShortListTolerated ==
    (candidates # <<>> /\ \E q \in DOMAIN candidates :
         Len(global_neighbors_indices(args, image_ids, candidates)[q]) < args.n_neighbors)
    => ~(pc = "error" /\ err \in {"IndexError", "ValueError"})

\* ---- C8 -----------------------------------------------------------------
\* C8: with clustering disabled the matcher receives exactly one cluster,
\* whose members are the image ids of the query's n_neighbors ranked
\* neighbours in rank order and nothing else.
C8_SingleClusterOfRankedNeighbors ==
    (pc = "match" /\ ~args.cluster) =>
        /\ Len(cluster_query) = 1
        /\ Len(cluster_query[1]) = args.n_neighbors
        /\ Len(indices[query_id]) = args.n_neighbors
        /\ \A i \in 1..args.n_neighbors :
              /\ cluster_query[1][i] = image_ids[indices[query_id][i]]
              /\ args.verify = "None" =>
                     cluster_query[1][i] = image_ids[candidates[query_id][i]]

\* the second query gets its single cluster although a neighbour of it has a
\* co-visible image that is no ranked neighbour
C8_Witness ==
    /\ pc = "match"
    /\ ~args.cluster
    /\ query_id = 2
    /\ args.n_neighbors = 2
    /\ \E n \in Range(CurrentNeighbors) : ~(CoVisible(n) \subseteq Range(cluster_query[1]))

\* ---- C9 -----------------------------------------------------------------
\* C9: a forward match (q, d) is kept iff the reverse match list contains
\* the pair (d, q).
C9_KeptIffReversePair ==
    pc = "returned" =>
        \A i \in DOMAIN matches_forward :
            (matches_forward[i] \in Range(matches))
                <=> (<<matches_forward[i][2], matches_forward[i][1]>> \in Range(matches_reverse))

\* ---- C10 ----------------------------------------------------------------
\* C10: every returned pair is a forward match and, read in the opposite
\* direction, a backward match; nothing is returned when a direction is empty.
C10_ResultWithinBothDirections ==
    pc = "returned" =>
        /\ \A m \in Range(matches) :
              /\ m \in Range(matches_forward)
              /\ <<m[2], m[1]>> \in Range(matches_reverse)
        /\ (matches_forward = <<>> \/ matches_reverse = <<>>) => matches = <<>>

\* ---- C11 ----------------------------------------------------------------
\* the (3D point, descriptor) pairs of the refiltering pool
PoolPairs ==
    LET pts == Flatten(pt_ids_all)
        descs == Flatten(data_descs)
    IN  {<<pts[i], descs[i]>> : i \in DOMAIN pts}

\* the candidates of the images match_local visits: every keypoint with a
\* valid 3D point, with its descriptor
CandidatePairs ==
    LET imgs == visited_images(args, query_image_ids, query_id, cluster_query)
    IN  UNION {{<<point3D_ids[Abs(imgs[k])][j], <<imgs[k], j>>>> :
                   j \in {j \in DOMAIN point3D_ids[Abs(imgs[k])] : point3D_ids[Abs(imgs[k])][j] > 0}} :
               k \in DOMAIN imgs}

\* C11: with refiltering the pool of the final matching pass holds every
\* (3D point, descriptor) pair with a valid 3D point of every member image of
\* the cluster, whatever the per-image matching selected (stated for the
\* queries that get a final pass).
C11_PoolHoldsEveryCandidate ==
    (pc = "matched" /\ args.no_refilter /\ ~refilter_skipped(pt_ids_all, data_descs))
        => CandidatePairs \subseteq PoolPairs

\* ---- the pose part of the query loop ------------------------------------

\* number of queries whose pose part got past the solver (line 765)
Solved == Len(pnp)

\* the run was ended by line 745, before the solver of query_id
RaisedAtIntrinsics == pc = "error" /\ err = "UnboundLocalError" /\ Solved < query_id

\* the run was ended by line 797, after the solver of query_id
RaisedAtError == pc = "error" /\ err = "UnboundLocalError" /\ Solved = query_id

\* the query holding camera_matrix and distortion_coeff
IntrinsicsOf == IF RaisedAtIntrinsics THEN query_id ELSE Solved

\* localization of query q succeeded: the robust estimate was accepted and
\* its refinement succeeded
Succeeded(q) == pnp[q].refined /\ pnp[q].ret

\* ---- C12 ----------------------------------------------------------------
\* C12: a query whose localization fails (fewer than 5 correspondences,
\* RANSAC failure, too few inliers, refinement failure) raises no error, in
\* verification mode as in normal mode, also as the first query of a batch.
C12_FailedQueryRaisesNothing ==
    ~(RaisedAtError /\ ~Succeeded(query_id))

\* ---- C13 ----------------------------------------------------------------
\* C13: for a query without an intrinsics record pose estimation goes on with
\* the median camera matrix and raises no error, whether or not an earlier
\* query had a record, and uses no value of another query's record.
C13_MissingIntrinsicsRecovered ==
    (IntrinsicsOf >= 1 /\ IntrinsicsOf \notin camera_matrices) =>
        /\ ~RaisedAtIntrinsics
        /\ camera_matrix = backfall_cm
        /\ distortion_coeff \notin (1..NQueries) \ {IntrinsicsOf}

\* ---- C14 ----------------------------------------------------------------
\* C14: a query is marked successful only if it has at least 5
\* correspondences, the robust estimation reported success and the inlier
\* count is at least min_inliers; with fewer than 5 correspondences the
\* solver is not invoked, no pose is produced and the inlier count and inlier
\* rate recorded for the query are 0.
C14_SuccessNeedsCorrespondencesAndInliers ==
    /\ \A q \in DOMAIN pnp :
          /\ pnp[q].refined =>
                /\ pnp[q].matched >= 5
                /\ pnp[q].invoked
                /\ pnp[q].success
                /\ inlier_nums[q] >= args.min_inliers
          /\ pnp[q].matched < 5 =>
                /\ ~pnp[q].invoked
                /\ ~pnp[q].refined
                /\ inlier_nums[q] = 0
                /\ inlier_rates[q] = 0
                /\ q \notin {position, quat}
                /\ q \notin Range(out_file)
    /\ Solved >= 1 =>
          /\ success => Succeeded(Solved)
          /\ ~pnp[Solved].refined => ~success

\* a query with four correspondences has failed and one with five succeeded
C14_Witness ==
    /\ Solved = 2
    /\ pnp[1].matched = 4
    /\ pnp[2].matched = 5
    /\ success
    /\ inlier_nums = <<0, 5>>

\* ---- C15 ----------------------------------------------------------------
\* C15: in a normal run the output file holds, after any number of processed
\* queries, one pose line for each query that succeeded, in query order, and
\* no line for a failed query.
C15_OneLinePerSuccessfulQuery ==
    ~verification(args) =>
        out_file = SelectSeq(SeqUpTo(Solved), LAMBDA q : Succeeded(q))

\* the first query failed for lack of correspondences, the second succeeded
\* and has the only line
C15_Witness ==
    /\ ~verification(args)
    /\ Solved = 2
    /\ pnp[1].matched = 0
    /\ Succeeded(2)
    /\ out_file = <<2>>

\* ---- C16 ----------------------------------------------------------------
\* C16: in verification mode the translation and rotation error recorded for
\* a query are computed from the pose estimated for that query, never from a
\* position or orientation left over from an earlier query.
C16_ErrorFromOwnPose ==
    verification(args) =>
        \A q \in DOMAIN errors : errors[q] = q /\ errors_rot[q] = q

\* ---- C17 ----------------------------------------------------------------
\* augmentation together with Colmap local features or NetVLAD global features
InvalidCombination ==
    args.augmentation /\ (args.local_method = "Colmap" \/ args.global_method = "NetVLAD")

\* no queries and no map-derived data are loaded, no neighbour search has
\* run, no query has been processed
NothingBegun ==
    /\ query_images = <<>>
    /\ image_ids = <<>>
    /\ candidates = <<>>
    /\ indices = <<>>
    /\ query_id = 0
    /\ cluster_query = <<>>
    /\ pnp = <<>>

\* C17: an invalid strategy combination raises a fatal error at startup,
\* before map loading, neighbour search or the processing of any query; for
\* every other combination print_config raises nothing.
C17_InvalidCombinationFatalAtStartup ==
    /\ InvalidCombination =>
          /\ pc \in {"print_config", "error"}
          /\ pc = "error" => err = "NotImplementedError"
          /\ NothingBegun
    /\ ~InvalidCombination => err # "NotImplementedError"

\* augmentation with Superpoint features and NetVLAD descriptors has ended
\* the program before anything was loaded
C17_Witness ==
    /\ pc = "error"
    /\ err = "NotImplementedError"
    /\ args.augmentation
    /\ args.local_method = "Superpoint"
    /\ args.global_method = "NetVLAD"
    /\ NothingBegun

\* ---- C18 ----------------------------------------------------------------
\* the first cause, in the order of the report, whose condition holds for q
FirstCause(q) ==
    IF \A i \in DOMAIN top_neighbor_match[q] : top_neighbor_match[q][i] <= 0
    THEN "wrong_neighbors"
    ELSE IF inlier_nums[q] < 12 THEN "few_inliers"
    ELSE IF inlier_rates[q] < 10 THEN "low_inlier_rate"
    ELSE "other"

WronglyLocalized == {q \in DOMAIN errors : errors[q] > 500 \/ errors_rot[q] > 10}

\* C18: every wrongly localized query (translation error > 5.0 m or rotation
\* error > 10.0 degrees) is counted for exactly one cause, the first of bad
\* global neighbours, few inliers (< 12), low inlier rate (< 10 %), other
\* whose condition holds; the four counts sum to the number of wrongly
\* localized queries.
C18_CausesPartitionFailures ==
    (pc = "done" /\ verification(args) /\ WronglyLocalized # {}) =>
        /\ report.wrong = WronglyLocalized
        /\ \A c \in {"wrong_neighbors", "few_inliers", "low_inlier_rate", "other"} :
              report[c] = {q \in WronglyLocalized : FirstCause(q) = c}
        /\ Cardinality(report.wrong_neighbors) + Cardinality(report.few_inliers)
             + Cardinality(report.low_inlier_rate) + Cardinality(report.other)
           = Cardinality(WronglyLocalized)

\* a query with bad neighbours and few inliers is counted for the neighbours,
\* next to a query counted for few inliers
C18_Witness ==
    /\ pc = "done"
    /\ verification(args)
    /\ report.wrong = {1, 2}
    /\ top_neighbor_match[1][1] = 0
    /\ inlier_nums = <<11, 11>>
    /\ report.wrong_neighbors = {1}
    /\ report.few_inliers = {2}

\* ---- C19 ----------------------------------------------------------------
\* the image shares a 3D point with the query image
SharesPointWithQuery(img) ==
    PointIdsOf(points3d, Abs(img))
        \cap PointIdsOf(points3d, Abs(query_image_ids[query_id])) # {}

\* the images of the clusters handed to match_local for the current query
HandedOverImages ==
    UNION {Range(cluster_members(args, cluster_query[j])) : j \in DOMAIN cluster_query}

\* C19: a query is attributed to bad global neighbours exactly when no
\* cluster image handed to the matcher for it shares a 3D point with the
\* query image; with clustering, a query one of whose cluster members shares
\* a point with it is never a bad-neighbour failure.
C19_BadNeighborsIffNoClusterImageShares ==
    (pc = "match" /\ verification(args)) =>
        (bad_neighbors(top_neighbor_match[query_id])
            <=> ~\E img \in HandedOverImages : SharesPointWithQuery(img))

\* ---- C20 ----------------------------------------------------------------
\* C20: with day thresholds a result is high accuracy iff its errors are
\* <= 0.25 m and <= 2.0 degrees, medium iff <= 0.5 m and <= 5.0 degrees,
\* coarse iff <= 5.0 m and <= 10.0 degrees; each returned value is the
\* percentage of all results in the tier, high <= medium <= coarse, and
\* each lies in [0, 100].
C20_DayTiers ==
    (pc = "returned" /\ day) =>
        LET n == Len(errors)
            tier(t, q) == Cardinality({i \in 1..n : errors[i] <= t /\ errors_rot[i] <= q})
        IN  /\ percentages[1] = [num |-> 100 * tier(25, 2), den |-> n]
            /\ percentages[2] = [num |-> 100 * tier(50, 5), den |-> n]
            /\ percentages[3] = [num |-> 100 * tier(500, 10), den |-> n]
            /\ percentages[1].num <= percentages[2].num
            /\ percentages[2].num <= percentages[3].num
            /\ \A k \in 1..3 : 0 <= percentages[k].num /\ percentages[k].num <= 100 * percentages[k].den

\* 0.2 m / 1.0 degree is high accuracy by day, 0.26 m / 1.0 degree is not
C20_Witness ==
    /\ pc = "returned"
    /\ day
    /\ errors = <<20, 26>>
    /\ errors_rot = <<1, 1>>
    /\ percentages[1] = [num |-> 100, den |-> 2]
    /\ percentages[2] = [num |-> 200, den |-> 2]

\* ---- C21 ----------------------------------------------------------------
\* a night query is one whose ground-truth id was negated by setup (line 476)
IsNightQuery(q) == query_image_ids[q] < 0

\* C21: in the verification report the share of high and medium accuracy
\* results counts a night query with the night thresholds (0.5 m / 2 deg and
\* 1.0 m / 5 deg) and a day query with the day thresholds (0.25 m / 2 deg
\* and 0.5 m / 5 deg).
C21_NightQueriesUseNightThresholds ==
    (pc = "done" /\ verification(args)) =>
        LET n == Len(errors)
            high == {i \in 1..n : errors_rot[i] <= 2 /\
                        errors[i] <= (IF IsNightQuery(i) THEN 50 ELSE 25)}
            medium == {i \in 1..n : errors_rot[i] <= 5 /\
                        errors[i] <= (IF IsNightQuery(i) THEN 100 ELSE 50)}
        IN  /\ percentages[1] = [num |-> 100 * Cardinality(high), den |-> n]
            /\ percentages[2] = [num |-> 100 * Cardinality(medium), den |-> n]

\* ---- C22 ----------------------------------------------------------------
\* lines 279-282: the query's ground-truth 3D point ids are read, and every
\* keypoint of the query has one
GroundTruthKnown ==
    /\ verification(args)
    /\ args.local_method = "Colmap"
    /\ query_image_ids[query_id] \in DOMAIN point3D_ids
    /\ \A k \in DOMAIN point3D_ids[query_image_ids[query_id]] :
          point3D_ids[query_image_ids[query_id]][k] > 0

\* C22: in verification mode with a known ground-truth 3D point at every
\* keypoint of the query, match_local returns after the final pass with
\* every surviving match counted as correct or as incorrect, so
\* correct + incorrect is the number of surviving matches.
C22_EverySurvivingMatchClassified ==
    (GroundTruthKnown /\ args.no_refilter /\ pc \in {"matched", "error"}) =>
        /\ pc = "matched"
        /\ correct + incorrect = Len(matched_pts)

\* ---- C23 ----------------------------------------------------------------
\* the images of the query's clusters, the query image itself left out in
\* verification mode
MemberImages ==
    UNION {{Abs(cluster_query[c][k]) : k \in DOMAIN cluster_query[c]} : c \in DOMAIN cluster_query}
        \ (IF verification(args) THEN {Abs(query_image_ids[query_id])} ELSE {})

ViewPositions(n, s, v) ==
    LET validation == {i \in 0..(n - 1) : i % s = 0}
    IN  IF v THEN validation ELSE (0..(n - 1)) \ validation

\* C24: the validation view holds exactly the positions i with
\* i % split == 0 and the training view exactly the others, in ascending
\* order; the two views are disjoint and cover 0..n-1; len(view) is the
\* number of its positions and view[j] is point_list at the j-th of them.
C24_SplitViews ==
    (pc = "PointCloudSplit") =>
        LET n == Len(point_list)
            mine == ViewPositions(n, split, val)
            other == PointCloudSplit_idcs(n, split, ~val)
        IN  /\ Range(idcs) = mine
            /\ \A a, b \in DOMAIN idcs : a < b => idcs[a] < idcs[b]
            /\ Range(other) = ViewPositions(n, split, ~val)
            /\ Range(idcs) \cap Range(other) = {}
            /\ Range(idcs) \cup Range(other) = 0..(n - 1)
            /\ PointCloudSplit_len(idcs) = Cardinality(mine)
            /\ index >= 0 =>
                  \E p \in mine : /\ Cardinality({x \in mine : x < p}) = index
                                  /\ item = point_list[p + 1]

\* the training view of a list of three with split 2 is position 1 alone
C24_Witness ==
    /\ pc = "PointCloudSplit"
    /\ ~val
    /\ split = 2
    /\ point_list = <<1, 2, 1>>
    /\ idcs = <<1>>
    /\ index = 0
    /\ item = 2

\* ---- C25 ----------------------------------------------------------------
\* C25: for every image i of the map, img_cluster[i] is the set of images
\* that observe a 3D point also observed by i; the relation is symmetric,
\* i is in img_cluster[i] iff i observes a 3D point, and an image that
\* observes no 3D point has the empty set.
C25_ClusterIsCoVisibility ==
    (pc = "global_neighbors" /\ args.cluster) =>
        /\ DOMAIN img_cluster = images
        /\ \A i \in images :
              /\ img_cluster[i] = CoVisible(i)
              /\ \A j \in images : j \in img_cluster[i] <=> i \in img_cluster[j]
              /\ i \in img_cluster[i] <=> PointIdsOf(points3d, i) # {}
              /\ PointIdsOf(points3d, i) = {} => img_cluster[i] = {}

\* a map with an image that observes no point and two images that share one
C25_Witness ==
    /\ pc = "global_neighbors"
    /\ args.cluster
    /\ \E i \in images : PointIdsOf(points3d, i) = {} /\ img_cluster[i] = {}
    /\ \E i, j \in images : i # j /\ j \in img_cluster[i]

\* ---- C26 ----------------------------------------------------------------
\* the loop is between two queries or has ended
BetweenQueries == pc \in {"local_matching", "done"}

\* number of queries the loop has processed
Processed == IF pc = "done" THEN Len(query_images) ELSE query_id - 1

\* C26: after the loop has processed n queries, image_times, inlier_rates and
\* inlier_nums hold n entries each, and so do errors, errors_rot and
\* top_neighbor_match in verification mode and local_matching_rate with
\* Colmap features; entry i is the one of query i, whether it succeeded or
\* failed.
C26_ResultListsAligned ==
    BetweenQueries =>
        LET n == Processed
        IN  /\ Len(image_times) = n
            /\ Len(inlier_rates) = n
            /\ Len(inlier_nums) = n
            /\ Len(pnp) = n
            /\ \A i \in 1..n :
                  /\ image_times[i] = i
                  /\ inlier_nums[i] = (IF pnp[i].inliers = -1 THEN 0 ELSE pnp[i].inliers)
                  /\ pnp[i].inliers = -1 => inlier_rates[i] = 0
            /\ verification(args) =>
                  /\ Len(errors) = n
                  /\ Len(errors_rot) = n
                  /\ Len(top_neighbor_match) = n
                  /\ args.local_method = "Colmap" => Len(local_matching_rate) = n
                  /\ \A i \in 1..n :
                        Len(top_neighbor_match[i]) = Len(indices[i])
            /\ ~verification(args) =>
                  /\ errors = <<>>
                  /\ errors_rot = <<>>
                  /\ top_neighbor_match = <<>>
                  /\ local_matching_rate = <<>>

\* a verification batch has ended whose first query succeeded and whose
\* second failed
C26_Witness ==
    /\ pc = "done"
    /\ verification(args)
    /\ Len(pnp) = 2
    /\ Succeeded(1)
    /\ ~Succeeded(2)
    /\ Len(errors) = 2
    /\ Len(local_matching_rate) = 2

\* ---- C27 ----------------------------------------------------------------
\* C27: with refiltering, whenever at least one visited image yields a
\* non-empty stage-one match the final matching pass is run over the pooled
\* candidates; a pool from a single image does not leave the result empty.
C27_FinalPassWheneverPoolNonEmpty ==
    (pc = "matched" /\ args.no_refilter /\ Len(pt_ids_all) >= 1) =>
        ~refilter_skipped(pt_ids_all, data_descs)

\* ---- C28 ----------------------------------------------------------------
\* C28: with clustering, every image id the neighbour search returns for a
\* query is a key of the co-visibility map, the negated ids of augmented
\* database images included, so the lookup of a neighbour's co-visibility
\* set raises no KeyError.
C28_NeighborsAreClusterKeys ==
    args.cluster =>
        /\ \A q \in DOMAIN indices : \A i \in DOMAIN indices[q] :
              image_ids[indices[q][i]] \in DOMAIN img_cluster
        /\ ~(pc = "error" /\ err = "KeyError")

\* ---- C29 ----------------------------------------------------------------
\* C29: with clustering, every ranked neighbour of the query is a member of
\* at least one of the clusters handed to match_local and none of these
\* clusters is empty, also on a map with images that observe no 3D point.
C29_NeighborsCoveredByNonEmptyClusters ==
    ClustersHandedOver =>
        /\ \A i \in DOMAIN CurrentNeighbors :
              \E c \in DOMAIN cluster_query : CurrentNeighbors[i] \in cluster_query[c]
        /\ \A c \in DOMAIN cluster_query : cluster_query[c] # {}

\* ---- C30 ----------------------------------------------------------------
\* C30: the sampling loop of the negative ends for every anchor: an image
\* sharing fewer than 1% of the anchor's valid points is drawn eventually.
C30_NegativeSamplingTerminates == <>(pc = "negative")

====
